---------------------------- MODULE Spec2Model ----------------------------
(***************************************************************************)
(* Model of core/thread.py: the Thread closure state machine and the       *)
(* ThreadManager registry, as coroutines on one cooperative event loop.    *)
(*                                                                         *)
(* Every coroutine call is a task record; a step of the model is one       *)
(* synchronous segment of a coroutine, from one real suspension point      *)
(* (an awaited network call) to the next.  An `await` of a coroutine that  *)
(* does not itself suspend runs inside the caller's segment.  Two awaits   *)
(* in a row with no access to the state between them are one suspension.   *)
(***************************************************************************)
EXTENDS Integers, FiniteSets, Sequences, TLC

\* ------------------------------------------------------------- bounds
\* Coroutine calls that suspend, counted over the whole run.  A call, the
\* timer it arms and the task that timer creates share the call's number.
\* Every Thread object but a correspondent's first is made after a _close,
\* so there are never more Thread objects or channels than calls.
MaxCalls == 3
\* Calls started from outside that may be suspended at once.
MaxInFlight == 2

\* Correspondent ids (recipient.id).
Users == {1}

Ids == 1..MaxCalls

\* Uploaded attachments of a message, and links in its text.
MaxUploads == 2
MaxLinks == 2
\* Relays of the one message taken in a row.
MaxRelays == 2

\* Words in a channel topic, items in a channel history and in the
\* correspondent's stream, and the history items a recovery looks back over
\* (history(limit=50) in the code).
MaxTopic == 2
MaxHistory == 3
MaxDm == 1
Lookback == 2

\* Characters in a user name.
MaxName == 2

VARIABLES
    cache,          \* ThreadManager.cache: user -> Thread object (0: no key)
    thread,         \* Thread objects: id, channel, ready, close_task
    chan,           \* guild text channels: state, topic, genesis card
    timer,          \* call_later handles: the Thread of an armed handle (0: not armed)
    closures,       \* bot.config.closures: the keys present
    subscriptions,  \* bot.config.subscriptions: the keys present
    tasks,          \* coroutine calls in progress
    nextCall,       \* number of the next call
    nextObj,        \* number of the next Thread object
    fin,            \* per channel: finalization effects performed so far
    objs,           \* per user: Threads cached, or returned by find_or_create,
                    \* since the key was last deleted
    creates,        \* per user: ThreadManager.create entries since then
    ret,            \* the suspended call that ended in the last step, if one did
    \* One relay of Thread.send taken alone, from the card to the delivery:
    message,        \* message.attachments and the links of message.content
    relay,          \* the send in progress: position, from_mod, which relay
    config,         \* config['subscriptions'] and ['notification_squad'] at str(self.id)
    card,           \* the embed being built and the mention text
    delivered,      \* what destination.send has been given, in order
    \* One recovery from a channel (_find_from_channel) and one edit:
    channel,        \* the channel given: its topic and its history, newest first
    dm,             \* the history of the correspondent's stream, newest first
    registry,       \* ThreadManager.cache, as its (key, Thread) entries
    found,          \* what the last call returned or raised
    \* Two ThreadManager.create calls naming their channels:
    authors,        \* the two recipients: name and discriminator
    text_channels,  \* bot.modmail_guild.text_channels: the names, in order
    naming          \* per create: its position and the name it computed

\* The state of the threads and their registry.
threadVars == <<cache, thread, chan, timer, closures, subscriptions, tasks,
                nextCall, nextObj, fin, objs, creates, ret>>

\* The state of one relay.
relayVars == <<message, relay, config, card, delivered>>

\* What the operations on threads leave alone.
recoverVars == <<channel, dm, registry, found>>

nameVars == <<authors, text_channels, naming>>

pureVars == <<relayVars, recoverVars, nameVars>>

vars == <<threadVars, pureVars>>

\* ------------------------------------------------------------- values
\* Thread.__init__ (no object allocated under this number yet: id = 0).
NoThread == [id |-> 0, channel |-> 0, ready |-> FALSE, close_task |-> 0]

NoChannel == [state |-> "none", topic |-> 0, card |-> 0]

NoFin == [log |-> 0, notice |-> 0, deleted |-> 0]

\* What each call carries: its arguments, its position and its locals.
NoTask == [id |-> 0, op |-> "none", pc |-> "none", thr |-> 0, user |-> 0,
           child |-> 0, after |-> 0, scheduled |-> FALSE, log |-> "none",
           eff |-> {}, pend |-> {}, ended |-> FALSE, notices |-> 0,
           hadHandle |-> FALSE, disturbed |-> FALSE, closedSince |-> FALSE,
           kids |-> 0, handle |-> 0, revoked |-> FALSE]

NoRet == [op |-> "none", pc |-> "none", obj |-> 0, user |-> 0, outcome |-> "none",
          after |-> 0, scheduled |-> FALSE, log |-> "none", eff |-> {},
          notices |-> 0, hadHandle |-> FALSE, disturbed |-> FALSE,
          closedSince |-> FALSE, relayed |-> FALSE]

\* What a call that ends leaves in ret.
RetOf(t, outcome) ==
    [NoRet EXCEPT !.op = t.op, !.pc = t.pc, !.obj = t.thr, !.user = t.user,
                  !.outcome = outcome, !.after = t.after,
                  !.scheduled = t.scheduled, !.log = t.log,
                  !.eff = t.eff, !.notices = t.notices,
                  !.hadHandle = t.hadHandle, !.disturbed = t.disturbed,
                  !.closedSince = t.closedSince,
                  !.relayed = (t.op = "send" \/ t.pc = "r_gather")]

\* ------------------------------------------------- Thread.send: the card
\* None, where a url is expected.
NoUrl == [src |-> "none", n |-> 0, ext |-> ""]

\* None, where a list or the text joined from one is expected, and a list.
NoList == [has |-> FALSE, words |-> <<>>]

ListOf(w) == [has |-> TRUE, words |-> w]

\* The endings of the url paths tried.
Exts == {".png", ".JPG", ".txt"}

\* str.lower() on those endings.
Lower(e) == CASE e = ".JPG" -> ".jpg" [] e = ".PNG" -> ".png" [] OTHER -> e

\* Line 246.
image_types == {".png", ".jpg", ".gif", ".jpeg", ".webp"}

\* is_image_url(u, _) on an item x = (url, filename): the lowered path of
\* the url ends with one of image_types; the filename is not looked at.
is_image_url(x) == Lower(x.url.ext) \in image_types

\* Sequences over S of length at most n.
SeqsUpTo(S, n) == UNION {[1..k -> S] : k \in 0..n}

\* message.attachments with url endings a, and the links that
\* re.findall(r'(https?://[^\s]+)', message.content) yields, with endings l.
\* An uploaded file has a filename, never empty; 0 stands for None.
MessageOf(a, l) ==
    [attachments |-> [i \in 1..Len(a) |->
                        [url |-> [src |-> "upload", n |-> i, ext |-> a[i]],
                         filename |-> i]],
     links |-> [i \in 1..Len(l) |-> [src |-> "link", n |-> i, ext |-> l[i]]]]

Messages ==
    {MessageOf(a, l) : a \in SeqsUpTo(Exts, MaxUploads),
                       l \in SeqsUpTo(Exts, MaxLinks)}

\* Lines 256-266: the uploads that are images, then the image links as
\* (link, None) items.
AsItem(u) == [url |-> u, filename |-> 0]

ImageLinks(m) ==
    SelectSeq([i \in 1..Len(m.links) |-> AsItem(m.links[i])], is_image_url)

UploadedImages(m) == SelectSeq(m.attachments, is_image_url)

Images(m) == UploadedImages(m) \o ImageLinks(m)

is_file(x) == ~is_image_url(x)

\* Line 259: the attachments that are not images.
Files(m) == SelectSeq(m.attachments, is_file)

\* Line 270.
prioritize_uploads(images) ==
    \E i \in 1..Len(images) : images[i].filename # 0

\* The embed before the loops of lines 274-296.
NoCard == [image |-> NoUrl, embedded_image |-> FALSE, fields |-> <<>>,
           additional_count |-> 1, file_upload_count |-> 1,
           mentions |-> NoList]

\* One turn of the loop of lines 274-289.
AddImage(em, att, prioritize) ==
    IF ~prioritize
          \/ (is_image_url(att) /\ ~em.embedded_image /\ att.filename # 0)
    THEN [em EXCEPT !.image = att.url, !.embedded_image = TRUE]
    ELSE IF att.filename # 0
    THEN [em EXCEPT
            !.fields = Append(@, [name |-> "Additional Image upload",
                                  n |-> em.additional_count, url |-> att.url]),
            !.additional_count = @ + 1]
    ELSE em

\* One turn of the loop of lines 293-296.
AddFile(em, att) ==
    [em EXCEPT !.fields = Append(@, [name |-> "File upload",
                                     n |-> em.file_upload_count,
                                     url |-> att.url]),
               !.file_upload_count = @ + 1]

RECURSIVE EmbedImages(_, _, _, _)
EmbedImages(em, images, i, prioritize) ==
    IF i > Len(images) THEN em
    ELSE EmbedImages(AddImage(em, images[i], prioritize), images, i + 1,
                     prioritize)

RECURSIVE EmbedFiles(_, _, _)
EmbedFiles(em, files, i) ==
    IF i > Len(files) THEN em
    ELSE EmbedFiles(AddFile(em, files[i]), files, i + 1)

\* Lines 256-296: the card send builds for message m.
Card(m) ==
    EmbedFiles(EmbedImages(NoCard, Images(m), 1,
                           prioritize_uploads(Images(m))),
               Files(m), 1)

\* ------------------------------------------- Thread.get_notifications
\* The mention lists tried under the thread's key (NoList: no such key).
Configs ==
    {[subscriptions |-> s, notification_squad |-> q] :
        s \in {NoList, ListOf(<<"@a">>)},
        q \in {NoList, ListOf(<<"@b">>), ListOf(<<"@b", "@c">>)}}

\* dict.get(key, [])
ListAt(l) == IF l.has THEN l.words ELSE <<>>

\* Lines 321-325 and 329.  The text ' '.join(mentions) is kept as the
\* sequence of the words it joins, none of which holds a space.
Mentions(c) ==
    ListOf(ListAt(c.subscriptions) \o ListAt(c.notification_squad))

\* (variant) get_notifications without the del of line 326.
SquadKept(c) == c

\* Line 326: del config['notification_squad'][key]
SquadCleared(c) == [c EXCEPT !.notification_squad = NoList]

\* No relay in progress.
RelayIdle ==
    /\ message = MessageOf(<<>>, <<>>)
    /\ relay = [pc |-> "idle", from_mod |-> FALSE, n |-> 0]
    /\ config = [subscriptions |-> NoList, notification_squad |-> NoList]
    /\ card = NoCard
    /\ delivered = <<>>

\* ------------------------------------- _find_from_channel: the values
\* A text is the sequence of its parts, a part being one of the words
\* below; a digit is a part of its own, so that the parts "1", "2" in a row
\* read 12.  None is NoList.
Marker == "User ID: "

Edited == " - (Edited)"

DigitWords == {"1", "2"}

TopicWords == {Marker, "1", "2", "x"}

Range(w) == {w[i] : i \in 1..Len(w)}

DigitOf(w) == IF w = "1" THEN 1 ELSE 2

\* The place of the first digit of w at or after i (0: none).
RECURSIVE NextDigit(_, _)
NextDigit(w, i) ==
    IF i > Len(w) THEN 0
    ELSE IF w[i] \in DigitWords THEN i ELSE NextDigit(w, i + 1)

\* int() of the digits of w that start at i, after the digits read as acc.
RECURSIVE RunValue(_, _, _)
RunValue(w, i, acc) ==
    IF i > Len(w) \/ w[i] \notin DigitWords THEN acc
    ELSE RunValue(w, i + 1, acc * 10 + DigitOf(w[i]))

\* int(re.findall(r'\d+', w)[0]), where w holds a digit.
FirstNumber(w) == RunValue(w, NextDigit(w, 1), 0)

\* The place of the first match of r'User ID: (\d+)' in w at or after i
\* (0: re.findall returns the empty list).
RECURSIVE NextMatch(_, _)
NextMatch(w, i) ==
    IF i >= Len(w) THEN 0
    ELSE IF w[i] = Marker /\ w[i + 1] \in DigitWords THEN i
    ELSE NextMatch(w, i + 1)

\* A message without embeds.
Text == [embeds |-> FALSE, footer |-> NoList, url |-> 0, description |-> "a"]

\* The notice of lines 216-221 (and 200-205): an embed with a description
\* and colour, no footer and no author.
Notice == [embeds |-> TRUE, footer |-> NoList, url |-> 0,
           description |-> "Scheduled close has been cancelled."]

\* The card of _format_info_embed for user 1: footer 'User ID: 1', an
\* author without url.
Genesis == [embeds |-> TRUE, footer |-> ListOf(<<Marker, "1">>), url |-> 0,
            description |-> "has started a thread"]

\* The card send posts for message m: author url message.jump_url, which
\* ends with m, and footer 'Moderator'.
Mirror(m) == [embeds |-> TRUE, footer |-> ListOf(<<"Moderator">>), url |-> m,
              description |-> "a"]

HistoryItems == {Text, Notice, Genesis, Mirror(1)}

\* The ids of the messages edited.
MessageIds == {1, 2}

\* The channels given to _find_from_channel.
Channels ==
    {[topic |-> t, history |-> h] :
        t \in {NoList} \cup {ListOf(w) : w \in SeqsUpTo(TopicWords, MaxTopic)},
        h \in SeqsUpTo(HistoryItems, MaxHistory)}

\* `async for message in channel.history(limit=50)` from item i on: the
\* first embed of each message with embeds gives em.footer.text to
\* re.findall, which raises TypeError on the Embed.Empty of an embed without
\* footer.
RECURSIVE HistoryScan(_, _)
HistoryScan(h, i) ==
    IF i > Len(h) \/ i > Lookback THEN [outcome |-> "none", id |-> 0]
    ELSE IF ~h[i].embeds THEN HistoryScan(h, i + 1)
    ELSE IF ~h[i].footer.has THEN [outcome |-> "raise", id |-> 0]
    ELSE LET k == NextMatch(h[i].footer.words, 1)
         IN  IF k = 0 THEN HistoryScan(h, i + 1)
             ELSE [outcome |-> "id",
                   id |-> RunValue(h[i].footer.words, k + 1, 0)]

\* Lines 383-398: user_id, whether the history was read, and IndexError
\* where the topic holds 'User ID: ' and no digit.
UserId(c) ==
    IF c.topic.has /\ c.topic.words # <<>> /\ Marker \in Range(c.topic.words)
    THEN IF NextDigit(c.topic.words, 1) = 0
         THEN [outcome |-> "raise", id |-> 0, scanned |-> FALSE]
         ELSE [outcome |-> "id", id |-> FirstNumber(c.topic.words),
               scanned |-> FALSE]
    ELSE IF ~c.topic.has
         THEN [outcome |-> HistoryScan(c.history, 1).outcome,
               id |-> HistoryScan(c.history, 1).id, scanned |-> TRUE]
         ELSE [outcome |-> "none", id |-> 0, scanned |-> FALSE]

\* A Thread of the registry: which object, its id, recipient (0: None),
\* ready and channel (0: None; 1: the channel given).
NoRecovered == [obj |-> 0, id |-> 0, recipient |-> 0, ready |-> FALSE,
                channel |-> 0]

\* A thread of user 1 that create has completed on this channel.
Cached == [obj |-> 1, id |-> 1, recipient |-> 1, ready |-> TRUE, channel |-> 1]

\* Lines 404-409: Thread(self, recipient), ready, bound to the channel,
\* id = user_id.
FromChannel(user_id, recipient) ==
    [obj |-> 2, id |-> user_id, recipient |-> recipient, ready |-> TRUE,
     channel |-> 1]

NoFound == [op |-> "none", outcome |-> "none", thr |-> NoRecovered,
            scanned |-> FALSE, created |-> FALSE, message_id |-> 0]

\* The first item of h at or after i that _edit_thread_message takes for
\* message_id (0: none): it has an embed whose author url ends with it.
RECURSIVE MatchIndex(_, _, _)
MatchIndex(h, i, message_id) ==
    IF i > Len(h) THEN 0
    ELSE IF h[i].embeds /\ h[i].url # 0 /\ h[i].url = message_id THEN i
    ELSE MatchIndex(h, i + 1, message_id)

\* Lines 167-169 on a card.
EditedCard(em, text) ==
    [em EXCEPT !.footer = IF Edited \in Range(em.footer.words) THEN @
                          ELSE ListOf(Append(em.footer.words, Edited)),
               !.description = text]

\* _edit_thread_message(channel, message_id, message) on the history h of
\* its first argument, None having no history (AttributeError).
EditThreadMessage(h, message_id, text) ==
    IF ~h.has THEN [outcome |-> "raise", items |-> <<>>]
    ELSE LET k == MatchIndex(h.words, 1, message_id)
         IN  IF k = 0 THEN [outcome |-> "ok", items |-> h.words]
             ELSE IF ~h.words[k].footer.has
                  THEN [outcome |-> "raise", items |-> h.words]
                  ELSE [outcome |-> "ok",
                        items |-> [h.words EXCEPT
                                     ![k] = EditedCard(@, text)]]

RecoverIdle ==
    /\ channel = [topic |-> NoList, history |-> <<>>]
    /\ dm = <<>>
    /\ registry = {}
    /\ found = NoFound

\* ------------------------------------------- _format_channel_name: values
\* The characters of the user names tried: an upper and a lower case
\* letter and one that a channel name does not allow.
Chars == {"A", "a", "!"}

Discriminators == {"0001", "0002"}

\* The recipients: author.name, never empty, and author.discriminator.
Authors ==
    {[name |-> n, discriminator |-> d] :
        n \in SeqsUpTo(Chars, MaxName) \ {<<>>}, d \in Discriminators}

\* str.lower() on one character.
LowerChar(c) == IF c = "A" THEN "a" ELSE c

\* string.ascii_letters + string.digits + '-'
allowed == {"A", "a", "-"}

\* ''.join(l for l in name if l in allowed), name being lowered already.
RECURSIVE Filtered(_)
Filtered(name) ==
    IF name = <<>> THEN <<>>
    ELSE LET l == LowerChar(Head(name))
         IN  (IF l \in allowed THEN <<l>> ELSE <<>>) \o Filtered(Tail(name))

\* Lines 505-508: the name before the loop, as the sequence of its parts.
Sanitized(author) ==
    (IF Filtered(author.name) = <<>> THEN <<"n", "u", "l", "l">>
     ELSE Filtered(author.name)) \o <<"-", author.discriminator>>

\* Lines 510-512: '-x' is appended while a channel of the guild has the name.
RECURSIVE Disambiguated(_, _)
Disambiguated(new_name, names) ==
    IF \E i \in 1..Len(names) : names[i] = new_name
    THEN Disambiguated(Append(new_name, "-x"), names)
    ELSE new_name

\* _format_channel_name(author) with the channels the guild has now.
format_channel_name(author) == Disambiguated(Sanitized(author), text_channels)

NoNaming == [pc |-> "idle", name |-> <<>>]

\* ------------------------------------------- _format_channel_name: idle
NameIdle ==
    /\ authors = <<>>
    /\ text_channels = <<>>
    /\ naming = <<>>

\* ------------------------------------------------------- initial state
\* No thread, no channel, no call.
Fresh ==
    /\ cache = [u \in Users |-> 0]
    /\ thread = [o \in Ids |-> NoThread]
    /\ chan = [c \in Ids |-> NoChannel]
    /\ timer = [h \in Ids |-> 0]
    /\ closures = {}
    /\ tasks = {}
    /\ nextCall = 1
    /\ nextObj = 1
    /\ fin = [c \in Ids |-> NoFin]
    /\ objs = [u \in Users |-> {}]
    /\ creates = [u \in Users |-> 0]
    /\ ret = NoRet

Init ==
    /\ Fresh
    /\ subscriptions \in SUBSET Users
    /\ RelayIdle
    /\ RecoverIdle
    /\ NameIdle

\* ------------------------------------------------------------ helpers
TopLevel == {t \in tasks : t.child = 0 /\ ~t.scheduled /\ ~t.ended}

CanStart == nextCall <= MaxCalls /\ Cardinality(TopLevel) < MaxInFlight

Replace(t, t2) == (tasks \ {t}) \cup {t2}

\* A _close that has removed its thread from the registry and has not yet
\* completed its channel deletion and notices.
MidFinal(t) ==
    /\ t.op \in {"close", "_close"}
    /\ t.pc \in {"cc2", "post_log", "gather"}
    /\ ~t.ended

\* The channels some _close is finalizing.
FinalizingChannels ==
    {thread[t.thr].channel : t \in {x \in tasks : MidFinal(x)}} \ {0}

\* The calls in progress once a gathered request e of t is done, t having
\* become t2: a call whose gather has already raised is over once nothing
\* is pending.
AfterRequest(t, t2, e) ==
    LET t3 == [t2 EXCEPT !.pend = @ \ {e}]
    IN  IF t3.ended /\ t3.pend = {} THEN tasks \ {t} ELSE Replace(t, t3)

\* ----------------------------------------------------------- variants
\* The same operations with one statement of the code left out; the
\* properties below are checked to fail on them.

\* create without line 428 ahead of its first await.
CreateEntryLate(u, n) == cache

\* _close without the isinstance(log_data, str) test.
LogErrorIgnored(r) == FALSE

\* _close without `del self.manager.cache[self.id]`.
StillRegistered(u) == cache

\* cancel_closure without the closures.pop.
ClosuresKept(u) == closures

\* send without the ready gate of lines 223-224.
Ungated(o) == "s_deliver"

\* --------------------------------------------------- ThreadManager.find
\* discord.utils.get(text_channels, topic=f'User ID: {recipient.id}')
TopicChannels(u) == {c \in Ids : chan[c].state = "live" /\ chan[c].topic = u}

\* Thread(self, recipient); thread.channel = channel; thread.ready = True
Recovered(u, c) == [id |-> u, channel |-> c, ready |-> TRUE, close_task |-> 0]

\* find(recipient=...) when it returns a Thread: it has no suspension
\* point, so it is one step.  A cache hit returns the entry; a miss looks
\* for a channel whose topic names the recipient and, finding one, caches a
\* new ready Thread bound to it.
FindBody(u) ==
    \/ /\ cache[u] # 0
       /\ UNCHANGED <<cache, thread, nextObj, objs>>
    \/ /\ cache[u] = 0
       /\ \E c \in TopicChannels(u) :
            /\ cache' = [cache EXCEPT ![u] = nextObj]
            /\ thread' = [thread EXCEPT ![nextObj] = Recovered(u, c)]
       /\ objs' = [objs EXCEPT ![u] = @ \cup {nextObj}]
       /\ nextObj' = nextObj + 1

\* find(recipient=...); on a miss with no such channel it returns None.
Find(u) ==
    /\ \/ FindBody(u)
       \/ /\ cache[u] = 0
          /\ TopicChannels(u) = {}
          /\ UNCHANGED <<cache, thread, nextObj, objs>>
    /\ ret' = NoRet
    /\ UNCHANGED <<chan, timer, closures, subscriptions, tasks, nextCall,
                   fin, creates>>
    /\ UNCHANGED pureVars

\* ------------------------------------------- ThreadManager.find_or_create
\* create, line 428: self.cache[recipient.id] = thread = Thread(self, recipient),
\* executed before create's first suspension point.
CreateEntry(u, n) == [cache EXCEPT ![u] = n]

\* find_or_create: find, and on None create up to its first await
\* (create_text_channel).  The welcome notice is a fire-and-forget task.
\* A call that find answers returns the Thread at once.
FindOrCreate(u) ==
    /\ \/ /\ FindBody(u)
          /\ ret' = [NoRet EXCEPT !.op = "find_or_create", !.obj = cache'[u],
                                  !.user = u, !.outcome = "ok"]
          /\ UNCHANGED <<tasks, creates, nextCall>>
       \/ /\ cache[u] = 0
          /\ TopicChannels(u) = {}
          /\ CanStart
          /\ ret' = NoRet
          /\ cache' = CreateEntry(u, nextObj)
          /\ thread' = [thread EXCEPT ![nextObj] = [NoThread EXCEPT !.id = u]]
          /\ objs' = [objs EXCEPT ![u] =
                         IF cache'[u] # 0 THEN @ \cup {cache'[u]} ELSE @]
          /\ creates' = [creates EXCEPT ![u] = @ + 1]
          /\ tasks' = tasks \cup
                {[NoTask EXCEPT !.id = nextCall, !.op = "find_or_create",
                                !.pc = "create_channel", !.thr = nextObj,
                                !.user = u]}
          /\ nextCall' = nextCall + 1
          /\ nextObj' = nextObj + 1
    /\ UNCHANGED <<chan, timer, closures, subscriptions, fin>>
    /\ UNCHANGED pureVars

\* create_text_channel returned (the channel takes its Thread's number):
\* thread.channel = channel; then the log
\* service is asked for the log url and the user's logs, and channel.edit
\* (the topic) and channel.send (the informational post) are gathered.
CreateChannelDone(t) ==
    /\ t.op = "find_or_create" /\ t.pc = "create_channel"
    /\ chan' = [chan EXCEPT ![t.thr] = [NoChannel EXCEPT !.state = "live"]]
    /\ thread' = [thread EXCEPT ![t.thr].channel = t.thr]
    /\ tasks' = Replace(t, [t EXCEPT !.pc = "provision",
                                     !.pend = {"topic", "info"}])
    /\ ret' = NoRet
    /\ UNCHANGED <<cache, timer, closures, subscriptions, nextCall, nextObj,
                   fin, objs, creates>>
    /\ UNCHANGED pureVars

\* channel.edit(topic=f'User ID: {recipient.id}') takes effect.
TopicWritten(t) ==
    /\ t.op = "find_or_create" /\ t.pc = "provision" /\ "topic" \in t.pend
    /\ chan[thread[t.thr].channel].state = "live"
    /\ chan' = [chan EXCEPT ![thread[t.thr].channel].topic = t.user]
    /\ tasks' = AfterRequest(t, t, "topic")
    /\ ret' = NoRet
    /\ UNCHANGED <<cache, thread, timer, closures, subscriptions, nextCall,
                   nextObj, fin, objs, creates>>
    /\ UNCHANGED pureVars

\* channel.send(mention, embed=info_embed): the card whose footer is
\* 'User ID: n' is in the channel.
InfoPosted(t) ==
    /\ t.op = "find_or_create" /\ t.pc = "provision" /\ "info" \in t.pend
    /\ chan[thread[t.thr].channel].state = "live"
    /\ chan' = [chan EXCEPT ![thread[t.thr].channel].card = t.user]
    /\ tasks' = AfterRequest(t, t, "info")
    /\ ret' = NoRet
    /\ UNCHANGED <<cache, thread, timer, closures, subscriptions, nextCall,
                   nextObj, fin, objs, creates>>
    /\ UNCHANGED pureVars

\* Both gathered requests returned: thread.ready = True; await msg.pin().
ProvisionDone(t) ==
    /\ t.op = "find_or_create" /\ t.pc = "provision"
    /\ t.pend = {} /\ ~t.ended
    /\ thread' = [thread EXCEPT ![t.thr].ready = TRUE]
    /\ tasks' = Replace(t, [t EXCEPT !.pc = "pin"])
    /\ ret' = NoRet
    /\ UNCHANGED <<cache, chan, timer, closures, subscriptions, nextCall,
                   nextObj, fin, objs, creates>>
    /\ UNCHANGED pureVars

\* msg.pin() returned: return thread.
CreateReturn(t) ==
    /\ t.op = "find_or_create" /\ t.pc = "pin"
    /\ tasks' = tasks \ {t}
    /\ objs' = [objs EXCEPT ![t.user] =
                   IF t.closedSince THEN @ ELSE @ \cup {t.thr}]
    /\ ret' = RetOf(t, "ok")
    /\ UNCHANGED <<cache, thread, chan, timer, closures, subscriptions,
                   nextCall, nextObj, fin, creates>>
    /\ UNCHANGED pureVars

\* An awaited request of create raises (create_text_channel, the log
\* service, channel.edit, channel.send, msg.pin): the exception leaves
\* create, which has no handler.  A request gathered beside the failing one
\* still runs to its end.
CreateFail(t) ==
    /\ t.op = "find_or_create" /\ ~t.ended
    /\ \/ /\ t.pc \in {"create_channel", "pin"}
          /\ tasks' = tasks \ {t}
       \/ /\ t.pc = "provision" /\ t.pend = {"topic", "info"}
          /\ tasks' = tasks \ {t}
       \/ /\ t.pc = "provision"
          /\ \E e \in t.pend : tasks' = AfterRequest(t, [t EXCEPT !.ended = TRUE], e)
    /\ ret' = RetOf(t, "raised")
    /\ UNCHANGED <<cache, thread, chan, timer, closures, subscriptions,
                   nextCall, nextObj, fin, objs, creates>>
    /\ UNCHANGED pureVars

\* A request gathered by a call that has already raised fails too.
OrphanFail(t) ==
    /\ t.ended /\ t.op # "reply"
    /\ \E e \in t.pend : tasks' = AfterRequest(t, t, e)
    /\ ret' = NoRet
    /\ UNCHANGED <<cache, thread, chan, timer, closures, subscriptions,
                   nextCall, nextObj, fin, objs, creates>>
    /\ UNCHANGED pureVars

\* ------------------------------------------------ Thread.cancel_closure
\* self.close_task.cancel(): an armed handle is cancelled; on a handle
\* whose callback has already run, cancel() undoes nothing.
CancelledTimers(o) ==
    IF thread[o].close_task = 0 THEN timer
    ELSE [timer EXCEPT ![thread[o].close_task] = 0]

\* self.close_task = None
HandleCleared(o) == [thread EXCEPT ![o].close_task = 0]

\* self.bot.config.closures.pop(str(self.id), None)
PoppedClosures(u) == closures \ {u}

\* cancel_closure up to its only suspension point.
Cancel(o) ==
    /\ timer' = CancelledTimers(o)
    /\ thread' = HandleCleared(o)
    /\ closures' = PoppedClosures(thread[o].id)

\* to_update is not None: cancel_closure awaits config.update().
Suspends(o) == thread[o].id \in closures

\* A caller holds the Thread it has just taken from the registry.
Held(o) == thread[o].id # 0 /\ cache[thread[o].id] = o

\* cancel_closure called on its own.
CancelCall(o) ==
    /\ Held(o)
    /\ Cancel(o)
    /\ IF Suspends(o)
       THEN /\ CanStart
            /\ tasks' = tasks \cup
                  {[NoTask EXCEPT !.id = nextCall, !.op = "cancel_closure",
                                  !.pc = "cc", !.thr = o,
                                  !.user = thread[o].id]}
            /\ nextCall' = nextCall + 1
       ELSE UNCHANGED <<tasks, nextCall>>
    /\ ret' = NoRet
    /\ UNCHANGED <<cache, chan, subscriptions, nextObj, fin, objs, creates>>
    /\ UNCHANGED pureVars

CancelReturn(t) ==
    /\ t.op = "cancel_closure" /\ t.pc = "cc"
    /\ tasks' = tasks \ {t}
    /\ ret' = RetOf(t, "ok")
    /\ UNCHANGED <<cache, thread, chan, timer, closures, subscriptions,
                   nextCall, nextObj, fin, objs, creates>>
    /\ UNCHANGED pureVars

\* ---------------------------------------------------------- Thread._close
\* del self.manager.cache[self.id]
Unregistered(u) == [cache EXCEPT ![u] = 0]

\* The calls of find_or_create for u in progress have seen a close.
MarkClosed(ts, u) ==
    {IF x.op = "find_or_create" /\ x.user = u
     THEN [x EXCEPT !.closedSince = TRUE] ELSE x : x \in ts}

\* The sends and replies for u in progress have seen a close(after > 0)
\* write its record or arm its timer.
Disturb(ts, u) ==
    {IF x.op \in {"send", "reply"} /\ x.user = u
     THEN [x EXCEPT !.disturbed = TRUE] ELSE x : x \in ts}

\* _close from its entry to its first suspension point: the registry key
\* is deleted (KeyError when it is absent), cancel_closure is awaited, and
\* when that does not suspend the subscription is dropped and post_log is
\* called with self.channel.id (AttributeError when channel is None).
\* `rest` are the other calls in progress.
EnterClose(t, rest) ==
    LET u == t.user
        o == t.thr
    IN  IF cache[u] = 0
        THEN /\ tasks' = rest
             /\ ret' = RetOf(t, "raised")
             /\ UNCHANGED <<cache, thread, timer, closures, subscriptions,
                            objs, creates>>
        ELSE /\ cache' = Unregistered(u)
             /\ objs' = [objs EXCEPT ![u] = IF cache'[u] = 0 THEN {} ELSE @]
             /\ creates' = [creates EXCEPT ![u] = IF cache'[u] = 0 THEN 0 ELSE @]
             /\ Cancel(o)
             /\ IF Suspends(o)
                THEN /\ tasks' = MarkClosed(rest, u) \cup {[t EXCEPT !.pc = "cc2"]}
                     /\ ret' = NoRet
                     /\ UNCHANGED subscriptions
                ELSE /\ subscriptions' = subscriptions \ {u}
                     /\ IF thread[o].channel = 0
                        THEN /\ tasks' = MarkClosed(rest, u)
                             /\ ret' = RetOf(t, "raised")
                        ELSE /\ tasks' = MarkClosed(rest, u) \cup
                                            {[t EXCEPT !.pc = "post_log"]}
                             /\ ret' = NoRet

\* _close resumes from cancel_closure's config.update().
CloseCancelled2(t) ==
    /\ t.op \in {"close", "_close"} /\ t.pc = "cc2"
    /\ subscriptions' = subscriptions \ {t.user}
    /\ IF thread[t.thr].channel = 0
       THEN /\ tasks' = tasks \ {t}
            /\ ret' = RetOf(t, "raised")
       ELSE /\ tasks' = Replace(t, [t EXCEPT !.pc = "post_log"])
            /\ ret' = NoRet
    /\ UNCHANGED <<cache, thread, chan, timer, closures, nextCall, nextObj,
                   fin, objs, creates>>
    /\ UNCHANGED pureVars

\* isinstance(log_data, str): the log service answered with an error.
LogErrored(r) == r = "err"

\* The requests _close gathers: the summary to the log feed (with
\* config.update()), the notice to the recipient unless silent, the
\* channel deletion if delete_channel.
Gathered(silent, del) ==
    {"summary"} \cup (IF silent THEN {} ELSE {"notice"})
                \cup (IF del THEN {"delete"} ELSE {})

\* post_log returned r.  An error payload is printed and _close returns;
\* a log record marks the remote log closed and the requests are gathered.
\* silent and delete_channel are arguments of the call (of call_later, for
\* a scheduled _close); this is where they are first read.
PostLogDone(t, r, silent, del) ==
    /\ t.op \in {"close", "_close"} /\ t.pc = "post_log"
    /\ IF LogErrored(r)
       THEN /\ tasks' = tasks \ {t}
            /\ ret' = RetOf([t EXCEPT !.log = r], "ok")
            /\ UNCHANGED fin
       ELSE /\ tasks' = Replace(t, [t EXCEPT !.log = r, !.pc = "gather",
                                             !.pend = Gathered(silent, del)])
            /\ fin' = [fin EXCEPT ![thread[t.thr].channel].log =
                                      IF r = "ok" THEN @ + 1 ELSE @]
            /\ ret' = NoRet
    /\ UNCHANGED <<cache, thread, chan, timer, closures, subscriptions,
                   nextCall, nextObj, objs, creates>>
    /\ UNCHANGED pureVars

\* One gathered request of _close takes effect.
GatherStep(t, e) ==
    /\ t.op \in {"close", "_close"} /\ t.pc = "gather" /\ e \in t.pend
    /\ LET c == thread[t.thr].channel
       IN  /\ e = "delete" => chan[c].state = "live"
           /\ chan' = IF e = "delete" THEN [chan EXCEPT ![c].state = "deleted"]
                      ELSE chan
           /\ fin' = CASE e = "notice" -> [fin EXCEPT ![c].notice = @ + 1]
                       [] e = "delete" -> [fin EXCEPT ![c].deleted = @ + 1]
                       [] OTHER -> fin
           /\ tasks' = AfterRequest(t, [t EXCEPT !.eff = @ \cup {e}], e)
    /\ ret' = NoRet
    /\ UNCHANGED <<cache, thread, timer, closures, subscriptions, nextCall,
                   nextObj, objs, creates>>
    /\ UNCHANGED pureVars

\* A gathered request of _close raises (the recipient takes no messages,
\* the channel is already gone): gather raises to _close, which has no
\* handler, while the other requests run on.
GatherFail(t, e) ==
    /\ t.op \in {"close", "_close"} /\ t.pc = "gather" /\ ~t.ended
    /\ e \in t.pend /\ e # "summary"
    /\ tasks' = AfterRequest(t, [t EXCEPT !.ended = TRUE], e)
    /\ ret' = RetOf(t, "raised")
    /\ UNCHANGED <<cache, thread, chan, timer, closures, subscriptions,
                   nextCall, nextObj, fin, objs, creates>>
    /\ UNCHANGED pureVars

\* gather returned: _close, and with it close, returns.
GatherDone(t) ==
    /\ t.op \in {"close", "_close"} /\ t.pc = "gather"
    /\ t.pend = {} /\ ~t.ended
    /\ tasks' = tasks \ {t}
    /\ ret' = RetOf(t, "ok")
    /\ UNCHANGED <<cache, thread, chan, timer, closures, subscriptions,
                   nextCall, nextObj, fin, objs, creates>>
    /\ UNCHANGED pureVars

\* ----------------------------------------------------------- Thread.close
\* close up to its first suspension point: cancel_closure; then, with
\* after > 0, config.update(), and with after = 0, _close.
CloseCall(o, after) ==
    /\ Held(o)
    /\ CanStart
    /\ LET t == [NoTask EXCEPT !.id = nextCall, !.op = "close", !.thr = o,
                               !.user = thread[o].id, !.after = after]
       IN  IF Suspends(o) \/ after > 0
           THEN /\ Cancel(o)
                /\ tasks' = tasks \cup
                      {[t EXCEPT !.pc = IF Suspends(o) THEN "cc1" ELSE "upd1"]}
                /\ ret' = NoRet
                /\ UNCHANGED <<cache, subscriptions, objs, creates>>
           ELSE EnterClose(t, tasks)
    /\ nextCall' = nextCall + 1
    /\ UNCHANGED <<chan, nextObj, fin>>
    /\ UNCHANGED pureVars

\* close resumes from cancel_closure's config.update().
CloseCancelled(t) ==
    /\ t.op = "close" /\ t.pc = "cc1"
    /\ IF t.after > 0
       THEN /\ tasks' = Replace(t, [t EXCEPT !.pc = "upd1"])
            /\ ret' = NoRet
            /\ UNCHANGED <<cache, thread, timer, closures, subscriptions,
                           objs, creates>>
       ELSE EnterClose(t, tasks \ {t})
    /\ UNCHANGED <<chan, nextCall, nextObj, fin>>
    /\ UNCHANGED pureVars

\* The first config.update() returned: the record is written under
\* str(self.id) and config.update() is awaited again.
CloseUpdated(t) ==
    /\ t.op = "close" /\ t.pc = "upd1"
    /\ closures' = closures \cup {t.user}
    /\ tasks' = Disturb(Replace(t, [t EXCEPT !.pc = "upd2"]), t.user)
    /\ ret' = NoRet
    /\ UNCHANGED <<cache, thread, chan, timer, subscriptions, nextCall,
                   nextObj, fin, objs, creates>>
    /\ UNCHANGED pureVars

\* The second config.update() returned: self.close_task = call_later(...),
\* and close returns.
CloseArmed(t) ==
    /\ t.op = "close" /\ t.pc = "upd2"
    /\ timer' = [timer EXCEPT ![t.id] = t.thr]
    /\ thread' = [thread EXCEPT ![t.thr].close_task = t.id]
    /\ tasks' = Disturb(tasks \ {t}, t.user)
    /\ ret' = RetOf(t, "ok")
    /\ UNCHANGED <<cache, chan, closures, subscriptions, nextCall, nextObj,
                   fin, objs, creates>>
    /\ UNCHANGED pureVars

\* ----------------------------------------------------- Thread._close_after
\* The timer expires: the loop runs _close_after, which creates the task
\* running _close(closer, silent, delete_channel, message, True).
TimerFire(h) ==
    /\ timer[h] # 0
    /\ timer' = [timer EXCEPT ![h] = 0]
    /\ tasks' = tasks \cup
          {[NoTask EXCEPT !.id = h, !.op = "_close", !.pc = "start",
                          !.thr = timer[h], !.user = thread[timer[h]].id,
                          !.scheduled = TRUE]}
    /\ ret' = NoRet
    /\ UNCHANGED <<cache, thread, chan, closures, subscriptions, nextCall,
                   nextObj, fin, objs, creates>>
    /\ UNCHANGED pureVars

\* The task created by _close_after runs its first segment.
CloseStart(t) ==
    /\ t.op = "_close" /\ t.pc = "start"
    /\ EnterClose(t, tasks \ {t})
    /\ UNCHANGED <<chan, nextCall, nextObj, fin>>
    /\ UNCHANGED pureVars

\* ------------------------------------------------------------ Thread.send
\* if not self.ready: await self.wait_until_ready()
ReadyPc(o) == IF thread[o].ready THEN "s_deliver" ELSE "s_wait"

\* send up to its first suspension point: with a timer handle held,
\* cancel_closure and then the notice to the staff channel; otherwise the
\* ready gate.
SendPc(o) ==
    IF thread[o].close_task # 0
    THEN (IF Suspends(o) THEN "s_cc" ELSE "s_notice")
    ELSE ReadyPc(o)

\* if self.close_task is not None: await self.cancel_closure()
SendEntry(o) ==
    IF thread[o].close_task # 0
    THEN Cancel(o)
    ELSE UNCHANGED <<timer, thread, closures>>

\* The task that _close_after made for handle h and that has not run yet
\* learns nothing of a cancel(): it is noted here, once the notice of the
\* cancelling send or reply is posted, that its closure was called off.
Revoke(ts, h) ==
    {IF x.op = "_close" /\ x.scheduled /\ x.id = h /\ x.pc = "start"
     THEN [x EXCEPT !.revoked = TRUE] ELSE x : x \in ts}

\* The reply whose gather runs the send t.
Parent(t) == CHOOSE p \in tasks : p.op = "reply" /\ p.child = 0 /\ p.id = t.id

\* A reply that has raised is over once its gathered requests are.
Settle(p) == IF p.ended /\ p.kids = 0 /\ p.pend = {} THEN {} ELSE {p}

SendCall(o) ==
    /\ Held(o)
    /\ CanStart
    /\ SendEntry(o)
    /\ tasks' = tasks \cup
          {[NoTask EXCEPT !.id = nextCall, !.op = "send", !.pc = SendPc(o),
                          !.thr = o, !.user = thread[o].id,
                          !.hadHandle = (thread[o].close_task # 0),
                          !.handle = thread[o].close_task]}
    /\ nextCall' = nextCall + 1
    /\ ret' = NoRet
    /\ UNCHANGED <<cache, chan, subscriptions, nextObj, fin, objs, creates>>
    /\ UNCHANGED pureVars

\* send resumes from cancel_closure's config.update().
SendCancelled(t) ==
    /\ t.op = "send" /\ t.pc = "s_cc"
    /\ tasks' = Replace(t, [t EXCEPT !.pc = "s_notice"])
    /\ ret' = NoRet
    /\ UNCHANGED <<cache, thread, chan, timer, closures, subscriptions,
                   nextCall, nextObj, fin, objs, creates>>
    /\ UNCHANGED pureVars

\* 'Scheduled close has been cancelled.' is in the staff channel; send
\* goes on to the ready gate.  The notice counts for the call that sent it.
SendNoticePosted(t) ==
    /\ t.op = "send" /\ t.pc = "s_notice"
    /\ thread[t.thr].channel # 0
    /\ chan[thread[t.thr].channel].state = "live"
    /\ tasks' = Revoke(
          IF t.child = 0
          THEN Replace(t, [t EXCEPT !.pc = ReadyPc(t.thr), !.notices = @ + 1])
          ELSE (tasks \ {t, Parent(t)}) \cup
                  {[t EXCEPT !.pc = ReadyPc(t.thr)],
                   [Parent(t) EXCEPT !.notices = @ + 1]}, t.handle)
    /\ ret' = NoRet
    /\ UNCHANGED <<cache, thread, chan, timer, closures, subscriptions,
                   nextCall, nextObj, fin, objs, creates>>
    /\ UNCHANGED pureVars

\* ready_event is set: the waiting send resumes.
SendReady(t) ==
    /\ t.op = "send" /\ t.pc = "s_wait"
    /\ thread[t.thr].ready
    /\ tasks' = Replace(t, [t EXCEPT !.pc = "s_deliver"])
    /\ ret' = NoRet
    /\ UNCHANGED <<cache, thread, chan, timer, closures, subscriptions,
                   nextCall, nextObj, fin, objs, creates>>
    /\ UNCHANGED pureVars

\* The card is built and delivered (append_log as a task, trigger_typing,
\* destination.send, message.delete): send returns.
SendDelivered(t) ==
    /\ t.op = "send" /\ t.pc = "s_deliver"
    /\ IF t.child = 0
       THEN /\ tasks' = tasks \ {t}
            /\ ret' = RetOf(t, "ok")
       ELSE /\ tasks' = (tasks \ {t, Parent(t)}) \cup
                            Settle([Parent(t) EXCEPT !.kids = @ - 1])
            /\ ret' = NoRet
    /\ UNCHANGED <<cache, thread, chan, timer, closures, subscriptions,
                   nextCall, nextObj, fin, objs, creates>>
    /\ UNCHANGED pureVars

\* A request of send raises (the notice, the delivery): send has no
\* handler; a reply gathering it raises at the first such exception.
SendFail(t) ==
    /\ t.op = "send" /\ t.pc \in {"s_notice", "s_deliver"}
    /\ IF t.child = 0
       THEN /\ tasks' = tasks \ {t}
            /\ ret' = RetOf(t, "raised")
       ELSE /\ tasks' = (tasks \ {t, Parent(t)}) \cup
                            Settle([Parent(t) EXCEPT !.kids = @ - 1,
                                                     !.ended = TRUE])
            /\ ret' = IF Parent(t).ended THEN NoRet
                      ELSE RetOf(Parent(t), "raised")
    /\ UNCHANGED <<cache, thread, chan, timer, closures, subscriptions,
                   nextCall, nextObj, fin, objs, creates>>
    /\ UNCHANGED pureVars

\* ----------------------------------------------------------- Thread.reply
\* (variant) reply reaching cancel_closure ahead of its reachability test.
UnreachableCancels(o) == SendEntry(o)

\* Lines 182-189: the unreachable branch returns the awaited
\* message.channel.send; nothing of the thread is touched on the way.
UnreachableEntry(o) == UNCHANGED <<timer, thread, closures>>

\* reply up to its first suspension point.  An empty message raises
\* UserInputError; for a recipient in no guild of the bot a notice goes to
\* the invoking channel and reply returns; otherwise the two sends are
\* listed and, with a timer handle held, cancel_closure is awaited and the
\* notice is added to the requests to gather.
ReplyCall(o, empty, reachable) ==
    /\ Held(o)
    /\ LET t == [NoTask EXCEPT !.id = nextCall, !.op = "reply", !.thr = o,
                               !.user = thread[o].id,
                               !.hadHandle = (thread[o].close_task # 0)]
       IN  IF empty
           THEN UNCHANGED <<tasks, nextCall, timer, thread, closures>>
           ELSE /\ CanStart
                /\ nextCall' = nextCall + 1
                /\ IF ~reachable
                   THEN /\ tasks' = tasks \cup {[t EXCEPT !.pc = "r_unreach"]}
                        /\ UnreachableEntry(o)
                   ELSE /\ SendEntry(o)
                        /\ tasks' = tasks \cup
                              {[t EXCEPT !.handle = thread[o].close_task,
                                         !.pc = IF thread[o].close_task # 0 /\ Suspends(o)
                                                THEN "r_cc" ELSE "r_gather0",
                                         !.pend = IF thread[o].close_task # 0 /\ ~Suspends(o)
                                                  THEN {"cancel_notice"} ELSE {}]}
    /\ ret' = NoRet
    /\ UNCHANGED <<cache, chan, subscriptions, nextObj, fin, objs, creates>>
    /\ UNCHANGED pureVars

\* The notice to the invoking channel is sent: reply returns.
ReplyUnreachDone(t) ==
    /\ t.op = "reply" /\ t.pc = "r_unreach"
    /\ tasks' = tasks \ {t}
    /\ ret' = RetOf([t EXCEPT !.eff = {"unreachable_notice"}], "ok")
    /\ UNCHANGED <<cache, thread, chan, timer, closures, subscriptions,
                   nextCall, nextObj, fin, objs, creates>>
    /\ UNCHANGED pureVars

\* reply resumes from cancel_closure's config.update(): the notice is
\* added to the requests to gather.
ReplyCancelled(t) ==
    /\ t.op = "reply" /\ t.pc = "r_cc"
    /\ tasks' = Replace(t, [t EXCEPT !.pc = "r_gather0",
                                     !.pend = {"cancel_notice"}])
    /\ ret' = NoRet
    /\ UNCHANGED <<cache, thread, chan, timer, closures, subscriptions,
                   nextCall, nextObj, fin, objs, creates>>
    /\ UNCHANGED pureVars

\* asyncio.gather(*tasks): the two sends run their first segments one after
\* the other, the send to the channel first.
ReplySpawn(t) ==
    /\ t.op = "reply" /\ t.pc = "r_gather0"
    /\ SendEntry(t.thr)
    /\ LET kid == [NoTask EXCEPT !.id = t.id, !.op = "send", !.thr = t.thr,
                                 !.user = t.user]
       IN  tasks' = Replace(t, [t EXCEPT !.pc = "r_gather", !.kids = 2])
                      \cup {[kid EXCEPT !.child = 1, !.pc = SendPc(t.thr),
                                         !.handle = thread[t.thr].close_task],
                            [kid EXCEPT !.child = 2, !.pc = ReadyPc(t.thr)]}
    /\ ret' = NoRet
    /\ UNCHANGED <<cache, chan, subscriptions, nextCall, nextObj, fin, objs,
                   creates>>
    /\ UNCHANGED pureVars

\* The notice reply gathered is in the staff channel.
ReplyNoticePosted(t) ==
    /\ t.op = "reply" /\ t.pc = "r_gather" /\ "cancel_notice" \in t.pend
    /\ thread[t.thr].channel # 0
    /\ chan[thread[t.thr].channel].state = "live"
    /\ tasks' = Revoke((tasks \ {t}) \cup
                          Settle([t EXCEPT !.pend = {}, !.notices = @ + 1]),
                       t.handle)
    /\ ret' = NoRet
    /\ UNCHANGED <<cache, thread, chan, timer, closures, subscriptions,
                   nextCall, nextObj, fin, objs, creates>>
    /\ UNCHANGED pureVars

\* The notice reply gathered raises.
ReplyNoticeFail(t) ==
    /\ t.op = "reply" /\ t.pc = "r_gather" /\ "cancel_notice" \in t.pend
    /\ tasks' = (tasks \ {t}) \cup Settle([t EXCEPT !.pend = {}, !.ended = TRUE])
    /\ ret' = IF t.ended THEN NoRet ELSE RetOf(t, "raised")
    /\ UNCHANGED <<cache, thread, chan, timer, closures, subscriptions,
                   nextCall, nextObj, fin, objs, creates>>
    /\ UNCHANGED pureVars

\* gather returned: reply returns.
ReplyDone(t) ==
    /\ t.op = "reply" /\ t.pc = "r_gather"
    /\ t.kids = 0 /\ t.pend = {} /\ ~t.ended
    /\ tasks' = tasks \ {t}
    /\ ret' = RetOf(t, "ok")
    /\ UNCHANGED <<cache, thread, chan, timer, closures, subscriptions,
                   nextCall, nextObj, fin, objs, creates>>
    /\ UNCHANGED pureVars

\* ---------------------------------------------------------- specification
Next ==
    \/ \E u \in Users : Find(u)
    \/ \E u \in Users : FindOrCreate(u)
    \/ \E o \in Ids : CancelCall(o)
    \/ \E o \in Ids : SendCall(o)
    \/ \E o \in Ids, after \in {0, 1} : CloseCall(o, after)
    \/ \E o \in Ids, empty, reachable \in BOOLEAN : ReplyCall(o, empty, reachable)
    \/ \E h \in Ids : TimerFire(h)
    \/ \E t \in tasks, r \in {"ok", "err"}, silent, del \in BOOLEAN :
          PostLogDone(t, r, silent, del)
    \/ \E t \in tasks, e \in {"summary", "notice", "delete"} : GatherStep(t, e)
    \/ \E t \in tasks, e \in {"notice", "delete"} : GatherFail(t, e)
    \/ \E t \in tasks : CreateChannelDone(t)
    \/ \E t \in tasks : TopicWritten(t)
    \/ \E t \in tasks : InfoPosted(t)
    \/ \E t \in tasks : ProvisionDone(t)
    \/ \E t \in tasks : CreateReturn(t)
    \/ \E t \in tasks : CreateFail(t)
    \/ \E t \in tasks : OrphanFail(t)
    \/ \E t \in tasks : CancelReturn(t)
    \/ \E t \in tasks : CloseCancelled(t)
    \/ \E t \in tasks : CloseUpdated(t)
    \/ \E t \in tasks : CloseArmed(t)
    \/ \E t \in tasks : CloseStart(t)
    \/ \E t \in tasks : CloseCancelled2(t)
    \/ \E t \in tasks : GatherDone(t)
    \/ \E t \in tasks : SendCancelled(t)
    \/ \E t \in tasks : SendNoticePosted(t)
    \/ \E t \in tasks : SendReady(t)
    \/ \E t \in tasks : SendDelivered(t)
    \/ \E t \in tasks : SendFail(t)
    \/ \E t \in tasks : ReplyUnreachDone(t)
    \/ \E t \in tasks : ReplyCancelled(t)
    \/ \E t \in tasks : ReplySpawn(t)
    \/ \E t \in tasks : ReplyNoticePosted(t)
    \/ \E t \in tasks : ReplyNoticeFail(t)
    \/ \E t \in tasks : ReplyDone(t)

Spec == Init /\ [][Next]_vars

\* ------------------------------------------------- one relay of send
\* send from the card to its await of destination.trigger_typing() (line
\* 298), for a message relayed for the first time or again.
SendCompose(from_mod) ==
    /\ relay.pc \in {"idle", "done"}
    /\ relay.n < MaxRelays
    /\ card' = Card(message)
    /\ relay' = [pc |-> "typing", from_mod |-> from_mod, n |-> relay.n + 1]
    /\ UNCHANGED <<message, config, delivered>>
    /\ UNCHANGED <<threadVars, recoverVars, nameVars>>

\* Lines 300-307, up to the await of destination.send: a message of the
\* correspondent takes get_notifications(), which drops the one-shot list;
\* a message of staff takes None.
SendMention ==
    /\ relay.pc = "typing"
    /\ IF relay.from_mod
       THEN /\ card' = [card EXCEPT !.mentions = NoList]
            /\ UNCHANGED config
       ELSE /\ card' = [card EXCEPT !.mentions = Mentions(config)]
            /\ config' = IF config.notification_squad.has
                         THEN SquadCleared(config) ELSE config
    /\ relay' = [relay EXCEPT !.pc = "sending"]
    /\ UNCHANGED <<message, delivered>>
    /\ UNCHANGED <<threadVars, recoverVars, nameVars>>

\* Line 309: destination.send(mentions, embed=em) returns.
SendDeliver ==
    /\ relay.pc = "sending"
    /\ delivered' = Append(delivered, [from_mod |-> relay.from_mod,
                                       mentions |-> card.mentions,
                                       image |-> card.image,
                                       fields |-> card.fields])
    /\ relay' = [relay EXCEPT !.pc = "done"]
    /\ UNCHANGED <<message, config, card>>
    /\ UNCHANGED <<threadVars, recoverVars, nameVars>>

RelayInit ==
    /\ Fresh
    /\ subscriptions = {}
    /\ message \in Messages
    /\ config \in Configs
    /\ relay = [pc |-> "idle", from_mod |-> FALSE, n |-> 0]
    /\ card = NoCard
    /\ delivered = <<>>
    /\ RecoverIdle
    /\ NameIdle

RelayNext ==
    \/ \E from_mod \in BOOLEAN : SendCompose(from_mod)
    \/ SendMention
    \/ SendDeliver

RelaySpec == RelayInit /\ [][RelayNext]_vars

\* ------------------------------------------ recovery from a channel
\* _find_from_channel(channel), lines 383-411.  bot.get_user may return
\* None (line 404).
FindFromChannel ==
    /\ found.op = "none"
    /\ LET r == UserId(channel)
           f == [NoFound EXCEPT !.op = "find", !.scanned = r.scanned]
       IN  IF r.outcome # "id"
           THEN /\ found' = [f EXCEPT !.outcome = r.outcome]
                /\ UNCHANGED registry
           ELSE IF \E e \in registry : e.id = r.id
           THEN /\ found' = [f EXCEPT !.outcome = "thread",
                               !.thr = CHOOSE e \in registry : e.id = r.id]
                /\ UNCHANGED registry
           ELSE \E recipient \in {0, r.id} :
                /\ registry' = registry \cup {FromChannel(r.id, recipient)}
                /\ found' = [f EXCEPT !.outcome = "thread",
                               !.thr = FromChannel(r.id, recipient),
                               !.created = TRUE]
    /\ UNCHANGED <<channel, dm>>
    /\ UNCHANGED <<threadVars, relayVars, nameVars>>

\* The history of the target o of an edit: None has none.
HistoryOf(target, h) == IF target = 0 THEN NoList ELSE ListOf(h)

\* thread.edit_message(message_id, message) awaited, lines 173-177: gather
\* runs both edits and raises what the first failing one raised.
EditMessage(o, message_id) ==
    /\ found.op # "edit"
    /\ o \in registry
    /\ LET a == EditThreadMessage(HistoryOf(o.recipient, dm), message_id, "b")
           b == EditThreadMessage(HistoryOf(o.channel, channel.history),
                                  message_id, "b")
       IN  /\ dm' = IF a.outcome = "ok" THEN a.items ELSE dm
           /\ channel' = IF b.outcome = "ok"
                         THEN [channel EXCEPT !.history = b.items]
                         ELSE channel
           /\ found' = [NoFound EXCEPT
                          !.op = "edit", !.thr = o, !.message_id = message_id,
                          !.outcome = IF a.outcome = "ok" /\ b.outcome = "ok"
                                      THEN "ok" ELSE "raise"]
    /\ UNCHANGED registry
    /\ UNCHANGED <<threadVars, relayVars, nameVars>>

RecoverInit ==
    /\ Fresh
    /\ subscriptions = {}
    /\ RelayIdle
    /\ NameIdle
    /\ channel \in Channels
    /\ dm \in SeqsUpTo({Text, Mirror(1)}, MaxDm)
    /\ registry \in {{}, {Cached}}
    /\ found = NoFound

RecoverNext ==
    \/ FindFromChannel
    \/ \E o \in registry, message_id \in MessageIds : EditMessage(o, message_id)

RecoverSpec == RecoverInit /\ [][RecoverNext]_vars

\* ------------------------------------------- create: naming the channel
\* create for recipient i up to its await of create_text_channel (lines
\* 428-433): the name is computed from the channels the guild has at that
\* moment and handed to the request.
CreateNamed(i) ==
    /\ naming[i].pc = "idle"
    /\ naming' = [naming EXCEPT ![i] = [pc |-> "creating",
                                        name |-> format_channel_name(authors[i])]]
    /\ UNCHANGED <<authors, text_channels>>
    /\ UNCHANGED <<threadVars, relayVars, recoverVars>>

\* The request returns: the guild has one more channel, of that name.
ChannelCreated(i) ==
    /\ naming[i].pc = "creating"
    /\ text_channels' = Append(text_channels, naming[i].name)
    /\ naming' = [naming EXCEPT ![i].pc = "done"]
    /\ UNCHANGED authors
    /\ UNCHANGED <<threadVars, relayVars, recoverVars>>

\* Two recipients, and a guild with no channel or with one that already has
\* the name the first would get.
NameInit ==
    /\ Fresh
    /\ subscriptions = {}
    /\ RelayIdle
    /\ RecoverIdle
    /\ authors \in {a \in [1..2 -> Authors] : a[1] # a[2]}
    /\ text_channels \in {<<>>, <<Sanitized(authors[1])>>}
    /\ naming = [i \in 1..2 |-> NoNaming]

NameNext ==
    \/ \E i \in 1..2 : CreateNamed(i)
    \/ \E i \in 1..2 : ChannelCreated(i)

NameSpec == NameInit /\ [][NameNext]_vars

\* -------------------------------------------------------------- properties
\* The timers armed for a Thread of correspondent u.
ArmedFor(u) == {h \in Ids : timer[h] # 0 /\ thread[timer[h]].id = u}

\* No finalization effect has been performed on the channel of Thread o.
NotFinalized(o) == thread[o].channel = 0 \/ fin[thread[o].channel] = NoFin

\* No close or _close for u is in progress.
NoCloseInProgress(u) ==
    \A t \in tasks : t.user = u => t.op \notin {"close", "_close"}

\* C1: for every correspondent, as long as no _close removes the registry
\* key, at most one Thread is ever cached or returned by find_or_create and
\* at most one call enters create; a call of find_or_create that returns
\* returns the cached Thread.
C1_OneThreadPerCorrespondent ==
    /\ \A u \in Users : Cardinality(objs[u]) <= 1 /\ creates[u] <= 1
    /\ (ret.op = "find_or_create" /\ ret.outcome = "ok" /\ ~ret.closedSince)
          => (cache[ret.user] = ret.obj /\ objs[ret.user] = {ret.obj})

\* A call of find_or_create has returned the Thread that another call,
\* suspended in create, is still provisioning.
C1_Witness ==
    /\ ret.op = "find_or_create" /\ ret.outcome = "ok" /\ ret.pc = "none"
    /\ \E t \in tasks : t.op = "find_or_create" /\ ~t.ended /\ t.thr = ret.obj

\* C2: when close(after=0) returns after post_log answered with an error
\* payload, the Thread is still the registry entry of its correspondent.
C2_ThreadKeptOnLogError ==
    (ret.op = "close" /\ ret.after = 0 /\ ret.log = "err")
       => cache[ret.user] = ret.obj

\* C3: a _close whose post_log answered with an error payload gathers no
\* request and has performed none of the summary post, the closing notice
\* and the channel deletion when it returns.
C3_NoEffectOnLogError ==
    /\ \A t \in tasks : (t.op \in {"close", "_close"} /\ t.log = "err")
          => (t.eff = {} /\ t.pend = {})
    /\ (ret.op \in {"close", "_close"} /\ ret.log = "err")
          => (ret.eff = {} /\ ret.outcome = "ok")

\* A _close has returned on an error payload of post_log.
C3_Witness ==
    ret.op \in {"close", "_close"} /\ ret.log = "err" /\ ret.outcome = "ok"

\* C4 as stated: once a close(after=0) whose post_log succeeded has ended,
\* the registry has no entry for the correspondent.
C4_NoEntryAfterClose ==
    (ret.op = "close" /\ ret.after = 0 /\ ret.log = "ok")
       => cache[ret.user] = 0

\* C4 amended: once a close(after=0) whose post_log succeeded has ended
\* (returned or raised), the closed Thread is not in the registry; an entry
\* there for the correspondent is a Thread made after the removal.
C4_ClosedThreadUnregistered ==
    (ret.op = "close" /\ ret.after = 0 /\ ret.log = "ok")
       => (cache[ret.user] # ret.obj
           /\ (cache[ret.user] # 0 => cache[ret.user] > ret.obj))

\* A close(after=0) whose post_log succeeded has raised from its gather.
C4_Witness ==
    /\ ret.op = "close" /\ ret.after = 0 /\ ret.log = "ok"
    /\ ret.outcome = "raised"

\* C5 as stated: when a send or reply called with a closure pending ends,
\* the Thread holds no timer handle, closures has no record under its id
\* and the call has posted exactly one cancellation notice.
C5_NoClosureAfterRelay ==
    (ret.op \in {"send", "reply"} /\ ret.hadHandle)
       => (thread[ret.obj].close_task = 0 /\ ret.user \notin closures
           /\ ret.notices = 1)

\* C5 amended: the same for a send, or a reply that passed its checks,
\* called with a timer handle held, that returns normally while no
\* close(after > 0) wrote its record or armed its timer during the call.
C5_RelayCancelsClosure ==
    (ret.op \in {"send", "reply"} /\ ret.hadHandle /\ ret.relayed
        /\ ret.outcome = "ok" /\ ~ret.disturbed)
       => (thread[ret.obj].close_task = 0 /\ ret.user \notin closures
           /\ ret.notices = 1)

\* A reply called with a timer handle held has relayed and returned.
C5_Witness ==
    /\ ret.op = "reply" /\ ret.hadHandle /\ ret.relayed
    /\ ret.outcome = "ok" /\ ~ret.disturbed /\ ret.notices = 1

\* C6: when create ends by an exception of create_text_channel, of the
\* topic write or of the informational post, the registry has no entry for
\* the correspondent.
C6_NoEntryAfterFailedCreate ==
    (ret.op = "find_or_create" /\ ret.outcome = "raised"
        /\ ret.pc \in {"create_channel", "provision"})
       => cache[ret.user] = 0

\* C7: the Thread the registry holds for a correspondent, which is what
\* find returns, is never bound to a channel that a _close in progress is
\* finalizing.
C7_NoThreadOnFinalizingChannel ==
    \A u \in Users :
        cache[u] # 0 => thread[cache[u]].channel \notin FinalizingChannels

\* C8: on every backing channel each finalization effect (the log marked
\* closed, the closing notice, the channel deletion) is performed at most
\* once.
C8_FinalizedAtMostOnce ==
    \A c \in Ids :
        fin[c].log <= 1 /\ fin[c].notice <= 1 /\ fin[c].deleted <= 1

\* C9, for the states in which no close or _close of the correspondent is
\* suspended: a correspondent with a record in closures has exactly one
\* armed timer.
C9_OneTimerPerRecord ==
    \A u \in Users :
        (u \in closures /\ NoCloseInProgress(u))
           => Cardinality(ArmedFor(u)) = 1

\* C10: when close(after > 0) returns, the Thread is the registry entry,
\* closures holds its record, the handle it holds is armed for it and
\* nothing has been finalized.
C10_PendingAfterDelayedClose ==
    (ret.op = "close" /\ ret.after > 0 /\ ret.outcome = "ok")
       => /\ cache[ret.user] = ret.obj
          /\ ret.user \in closures
          /\ thread[ret.obj].close_task # 0
          /\ timer[thread[ret.obj].close_task] = ret.obj
          /\ NotFinalized(ret.obj)

\* The gate of C11: a send delivers (and appends to the audit log) only on a Thread
\* whose ready gate is set; a send on a Thread that is not ready stays
\* suspended, cannot resume before ready is set and can resume once it is;
\* a Thread made ready by create has its channel topic written and its
\* informational post in the channel.
C11_ReadyGate ==
    /\ \A t \in tasks :
          (t.op = "send" /\ t.pc = "s_deliver") => thread[t.thr].ready
    /\ \A t \in tasks :
          (t.op = "send" /\ t.pc = "s_wait")
             => (thread[t.thr].ready <=> ENABLED SendReady(t))
    /\ \A o \in Ids :
          (thread[o].ready /\ thread[o].channel = o)
             => (chan[o].topic = thread[o].id /\ chan[o].card = thread[o].id)
    /\ (ret.op = "send" /\ ret.outcome = "ok") => thread[ret.obj].ready

\* A send suspended at the ready gate, on a Thread that create has just
\* made ready.
C11_Witness ==
    \E t \in tasks :
        /\ t.op = "send" /\ t.pc = "s_wait"
        /\ thread[t.thr].ready /\ thread[t.thr].channel = t.thr

\* The resumption of C11: under a fair event loop a send suspended at the
\* gate of a ready Thread leaves the gate.
C11_Resumes ==
    \A i \in Ids, k \in 0..2 :
        (\E t \in tasks : t.id = i /\ t.child = k /\ t.pc = "s_wait"
                          /\ thread[t.thr].ready)
          ~> ~(\E t \in tasks : t.id = i /\ t.child = k /\ t.pc = "s_wait")

\* The loop runs a coroutine whose ready_event wait has been released.
FairSpec == Spec /\ WF_vars(\E t \in tasks : SendReady(t))

\* C11, both parts.
C11_GatedRelay == []C11_ReadyGate /\ C11_Resumes

\* C17: a reply for an unreachable correspondent is one suspended request,
\* the notice to the invoking channel: the step that starts it and the step
\* that ends it change neither the registry, the channels, the Threads
\* (their timer handles included), the timers, the closures records nor
\* the subscriptions, start no send, and the call returns having posted
\* that notice and no cancellation notice.
C17_UnreachableReplyOnlyNotifies ==
    [][ /\ \A t \in tasks' :
              (t.op = "reply" /\ t.pc = "r_unreach"
                  /\ \A x \in tasks : x.id # t.id)
                 => /\ tasks' = tasks \cup {t}
                    /\ UNCHANGED <<cache, thread, chan, timer, closures,
                                   subscriptions, fin>>
        /\ \A t \in tasks :
              (t.op = "reply" /\ t.pc = "r_unreach"
                  /\ \A x \in tasks' : x.id # t.id)
                 => /\ tasks' = tasks \ {t}
                    /\ UNCHANGED <<cache, thread, chan, timer, closures,
                                   subscriptions, fin>>
                    /\ ret'.op = "reply" /\ ret'.outcome = "ok"
                    /\ ret'.eff = {"unreachable_notice"}
                    /\ ret'.notices = 0 ]_vars

\* A reply for an unreachable correspondent has returned on a Thread with
\* a closure pending, which is still pending.
C17_Witness ==
    /\ ret.op = "reply" /\ ret.pc = "r_unreach" /\ ret.hadHandle
    /\ thread[ret.obj].close_task # 0
    /\ timer[thread[ret.obj].close_task] = ret.obj
    /\ ret.user \in closures

\* C20: the task of a scheduled closure that a send or a reply has called
\* off (cancel_closure run, cancellation notice posted) while it was
\* waiting to run never gets past its start: it removes no Thread from the
\* registry and finalizes nothing.
C20_RevokedClosureNeverRuns ==
    \A t \in tasks :
        (t.op = "_close" /\ t.scheduled /\ t.revoked) => t.pc = "start"

\* The image candidates of the message relayed, in combined order, and the
\* candidate the card should embed: the first uploaded image, or with no
\* uploaded image the first candidate.
FirstCandidate(m) ==
    IF UploadedImages(m) # <<>> THEN UploadedImages(m)[1].url
    ELSE Images(m)[1].url

\* C12: for a message with an image candidate, the image the card embeds
\* is the first uploaded image when one was uploaded, and otherwise the
\* first image link.
C12_PrimaryIsFirstCandidate ==
    (relay.pc # "idle" /\ Images(message) # <<>>)
       => card.image = FirstCandidate(message)

\* The 'Additional Image upload (N)' fields of the card, and the fields
\* there should be: one for each candidate that the card does not embed,
\* numbered from 1 in combined order.
AdditionalFields ==
    LET additional(f) == f.name = "Additional Image upload"
    IN  SelectSeq(card.fields, additional)

OtherCandidates ==
    LET other(x) == x.url # card.image
    IN  SelectSeq(Images(message), other)

\* C13: every image candidate but the embedded one is exactly one
\* 'Additional Image upload (N)' field of the card, N counting from 1 in
\* combined order.
C13_OthersAreAdditional ==
    relay.pc # "idle"
       => AdditionalFields =
             [i \in 1..Len(OtherCandidates) |->
                 [name |-> "Additional Image upload", n |-> i,
                  url |-> OtherCandidates[i].url]]

\* C19: the step that takes the mentions of a correspondent's message
\* takes the subscription list followed by the one-shot list, leaves no
\* one-shot list under the key and leaves the subscription list as it was;
\* for a staff message it takes None and leaves both lists; the delivery
\* carries the mentions taken and changes no list; and once a
\* correspondent's message has been delivered, the next one carries the
\* subscription list alone.
C19_MentionsOnceThenSubscribers ==
    [][ /\ (relay.pc = "typing" /\ relay'.pc = "sending")
           => IF relay.from_mod
              THEN card'.mentions = NoList /\ config' = config
              ELSE /\ card'.mentions =
                         ListOf(ListAt(config.subscriptions)
                                   \o ListAt(config.notification_squad))
                   /\ ~config'.notification_squad.has
                   /\ config'.subscriptions = config.subscriptions
                   /\ (\E i \in 1..Len(delivered) : ~delivered[i].from_mod)
                         => card'.mentions.words = ListAt(config.subscriptions)
        /\ (relay.pc = "sending" /\ relay'.pc = "done")
           => /\ Len(delivered') = Len(delivered) + 1
              /\ delivered'[Len(delivered')].mentions = card.mentions
              /\ config' = config
              /\ ~relay.from_mod => ~config.notification_squad.has ]_vars

\* Two messages of the correspondent have been delivered, the first with
\* the subscriber and the two one-shot mentions, the second with the
\* subscriber alone.
C19_Witness ==
    /\ Len(delivered) = 2
    /\ ~delivered[1].from_mod /\ ~delivered[2].from_mod
    /\ delivered[1].mentions.words = <<"@a", "@b", "@c">>
    /\ delivered[2].mentions.words = <<"@a">>

\* The items a recovery looks back over.
InLookback ==
    {channel.history[i] : i \in {k \in 1..Len(channel.history) : k <= Lookback}}

\* C14: _find_from_channel on a channel whose topic is 'User ID: n' returns
\* a Thread of the registry with id n, ready and bound to the channel,
\* without reading the history; on a channel without topic whose last items
\* (within the lookback) hold the card with footer 'User ID: n' it returns
\* the same through the history scan; where a thread for n is cached it
\* returns that one and creates none.
C14_RecoversFromTopicOrHistory ==
    found.op = "find" =>
      /\ \A d \in DigitWords :
           channel.topic = ListOf(<<Marker, d>>) =>
             /\ found.outcome = "thread"
             /\ found.thr \in registry
             /\ found.thr.id = DigitOf(d)
             /\ ~found.scanned
             /\ found.created => found.thr.ready /\ found.thr.channel = 1
      /\ (~channel.topic.has /\ Genesis \in InLookback) =>
             /\ found.outcome = "thread"
             /\ found.thr \in registry
             /\ found.thr.id = 1
             /\ found.scanned
             /\ found.created => found.thr.ready /\ found.thr.channel = 1
      /\ (found.outcome = "thread" /\ found.thr.id = 1 /\ Cached \in registry) =>
             /\ found.thr = Cached
             /\ ~found.created
             /\ registry = {Cached}

\* A topic that is present, not empty, and holds no 'User ID: n'.
Corrupted(t) == t.has /\ t.words # <<>> /\ NextMatch(t.words, 1) = 0

\* C15: on a channel whose topic is present but holds no correspondent id,
\* _find_from_channel reads the recent history and, where the scan finds
\* the card with 'User ID: n' as it does for a missing topic, returns a
\* Thread with id n.
C15_CorruptedTopicFallsBack ==
    ( /\ found.op = "find"
      /\ Corrupted(channel.topic)
      /\ HistoryScan(channel.history, 1).outcome = "id" ) =>
        /\ found.scanned
        /\ found.outcome = "thread"
        /\ found.thr.id = HistoryScan(channel.history, 1).id

\* C18: edit_message with a message id that no card of the channel history
\* or of the correspondent's stream carries changes no message in either
\* and raises nothing, for every thread of the registry, one recovered
\* with recipient None included.
C18_UnmatchedEditIsNoOp ==
    [][ ( /\ found'.op = "edit"
          /\ found.op # "edit"
          /\ MatchIndex(channel.history, 1, found'.message_id) = 0
          /\ MatchIndex(dm, 1, found'.message_id) = 0 ) =>
            /\ channel' = channel
            /\ dm' = dm
            /\ found'.outcome = "ok" ]_vars

\* C16: two threads created, one after the other or at the same time, for
\* two recipients whose sanitized channel names are the same get channels
\* of different names, one being the other with '-x' appended.
C16_CollidingNamesDiffer ==
    ( /\ naming # <<>>
      /\ \A i \in 1..2 : naming[i].pc = "done"
      /\ Sanitized(authors[1]) = Sanitized(authors[2]) ) =>
        /\ naming[1].name # naming[2].name
        /\ \/ naming[2].name = Append(naming[1].name, "-x")
           \/ naming[1].name = Append(naming[2].name, "-x")

\* C21: in every reachable state a Thread that holds a timer handle
\* (close_task is not None) has a record in config.closures under its id,
\* whatever cancel_closure, send or reply runs while a close(after > 0) is
\* suspended.
C21_HandleImpliesRecord ==
    \A o \in Ids :
        thread[o].close_task # 0 => thread[o].id \in closures

=============================================================================
